---- MODULE Spec2Model ----
(***************************************************************************)
(* A model of argocd-k8s-auth-gke-wli-eks: the credential cache            *)
(* (pkg/cache/cache.go), alone and under concurrent use, the               *)
(* exec-credential formatter (pkg/k8s/credentials.go), the metadata        *)
(* providers (pkg/gcp), the authenticator (pkg/aws) and the orchestrator   *)
(* (main.go).                                                              *)
(*                                                                         *)
(* The clock counts whole minutes; the times handed to the formatter are   *)
(* in ticks, several to the second.  Strings that the code inspects        *)
(* character by character are sequences of one-character strings, and      *)
(* strings that are encoded are sequences of bytes.                        *)
(***************************************************************************)
EXTENDS Integers, Sequences, FiniteSets, TLC

VARIABLES
    now,            \* the wall clock, in minutes
    files,          \* the file system under the cache directories: path -> content
    lastPut,        \* history: per path, the last write if it was a successful Put
    ret,            \* the last call on the cache API and what it returned
    creatable,      \* environment: the candidate cache directories MkdirAll can create
    pc,             \* the orchestrator's position in run()
    cfg,            \* the configuration loaded from the flags
    credCache,      \* run()'s credCache: a *Cache or nil
    presignedURL,   \* run()'s presignedURL
    execCred,       \* run()'s execCred
    stdout,         \* what the process has written to os.Stdout
    err,            \* the error run() returned
    did,            \* history: the calls this run has made
    filesAtStart,   \* history: the file system when this run started
    elapsed,        \* history: the minutes this run has taken so far
    pkey,           \* the key handed to getCacheFilePath
    ppath,          \* the path getCacheFilePath returned for pkey
    input,          \* the arguments of a call of one of the other functions
    output,         \* what that call returned
    disk,           \* the bytes of the one cache file the goroutines share
    gs,             \* the goroutines that use the cache concurrently
    sign            \* one call of GetPresignedCallerIdentityURL, step by step

vars == <<now, files, lastPut, ret, creatable, pc, cfg, credCache, presignedURL,
          execCred, stdout, err, did, filesAtStart, elapsed, pkey, ppath,
          input, output, disk, gs, sign>>

cacheVars == <<files, lastPut, ret>>
runVars == <<creatable, pc, cfg, credCache, presignedURL, execCred, stdout, err,
             did, filesAtStart, elapsed>>
callVars == <<input, output>>
raceVars == <<disk, gs>>
signVars == <<sign>>
pathVars == <<pkey, ppath, callVars, raceVars, signVars>>

----------------------------------------------------------------------------
(* Bounds of the model. *)

\* The clock stops at MaxTime.
MaxTime == 3
\* Key components handed to getCacheFilePath have 1..MaxLen characters.
MaxLen == 2
\* A run takes at most MaxElapsed minutes from its start to its end.
MaxElapsed == 1

(* Program constants, in minutes. *)

minValidityPeriod == 5
presignedURLExpiration == 30
TokenExpirationBuffer == 1
\* How long STS accepts a presigned GetCallerIdentity URL after its signing time.
SignedURLValidity == 15

----------------------------------------------------------------------------
(* Values. *)

\* Go's nil for a []byte, a *Cache, a string not yet assigned.
Nil == [kind |-> "nil"]
\* error(nil)
NoError == "nil"
\* The zero time.Time, which lies before every time of the model.
ZeroTime == -1

\* The characters a key component is made of.
Alphabet == {"a", "_", "/", ":"}

\* All strings over Alphabet of 1..n characters.
Strs(n) == UNION {[1..k -> Alphabet] : k \in 1..n}

\* The cache keys the cache API and the orchestrator are run with: the first
\* two roles differ and sanitize alike, the third does not.
Roles == {<<"a", "/", "b">>, <<"a", "_", "b">>, <<"c">>}
Clusters == {<<"k">>}
Regions == {<<"r">>}
Keys == [AWSRoleARN : Roles, EKSClusterName : Clusters, STSRegion : Regions]

\* The keys getCacheFilePath is run on as a pure function.
PathKeys == [AWSRoleARN : Strs(MaxLen), EKSClusterName : Strs(MaxLen), STSRegion : Strs(MaxLen)]

\* The candidate cache directories, in the order NewCache tries them.
Dirs == <<"home", "usercache", "tmp">>
DirSet == {Dirs[i] : i \in DOMAIN Dirs}

\* The byte strings the cache API is handed as credentials.
Blobs == {[kind |-> "bytes", b |-> "x"], [kind |-> "bytes", b |-> "y"]}

----------------------------------------------------------------------------
(* pkg/cache/cache.go *)

\* strings.ReplaceAll(s, old, new) for a one-character old and new.
ReplaceAll(s, old, new) == [i \in DOMAIN s |-> IF s[i] = old THEN new ELSE s[i]]

\* The file name of getCacheFilePath: fmt.Sprintf("%s_%s_%s.json", ...) of the
\* sanitized components.
getCacheFileName(key) ==
    LET sanitizedRole == ReplaceAll(ReplaceAll(key.AWSRoleARN, "/", "_"), ":", "_")
        sanitizedCluster == ReplaceAll(key.EKSClusterName, "/", "_")
        sanitizedRegion == ReplaceAll(key.STSRegion, "/", "_")
    IN  sanitizedRole \o <<"_">> \o sanitizedCluster \o <<"_">> \o sanitizedRegion
            \o <<".", "j", "s", "o", "n">>

\* filepath.Join(c.cacheDir, filename): the file name holds no separator, so the
\* path is the directory and the name.
getCacheFilePath(c, key) == [dir |-> c.cacheDir, base |-> getCacheFileName(key)]

\* Every path the model's keys can name.
Paths == {getCacheFilePath([cacheDir |-> d], k) : d \in DirSet, k \in Keys}

\* File contents.  A file is absent, unreadable, or holds bytes: the JSON of a
\* cache entry, the JSON object {} or bytes that are no JSON (a torn write).
Absent == [kind |-> "absent"]
Unreadable == [kind |-> "unreadable"]
Garbage == [kind |-> "garbage"]
EmptyObject == [kind |-> "emptyobj"]

\* json.Marshal(CacheEntry{...}).
Marshal(entry) ==
    [kind |-> "json", exec_credential |-> entry.ExecCredential,
     expiration_time |-> entry.ExpirationTime]

\* json.Unmarshal(data, &entry): an error for bytes that are no JSON, the zero
\* entry for {}, the entry otherwise.
Unmarshal(data) ==
    CASE data.kind = "json" ->
            [err |-> FALSE,
             entry |-> [ExecCredential |-> data.exec_credential,
                        ExpirationTime |-> data.expiration_time]]
      [] data.kind = "emptyobj" ->
            [err |-> FALSE, entry |-> [ExecCredential |-> Nil, ExpirationTime |-> ZeroTime]]
      [] OTHER -> [err |-> TRUE]

\* os.ReadFile(path) on file system fs.
ReadFile(fs, path) ==
    IF fs[path].kind \in {"absent", "unreadable"}
    THEN [err |-> TRUE]
    ELSE [err |-> FALSE, data |-> fs[path]]

\* time.Until(t)
Until(t) == t - now

\* A variant of TooOld that also rejects an entry with exactly the minimum left.
TooOldStrict(entry) == Until(entry.ExpirationTime) <= minValidityPeriod
\* cache.go:99: the entry has less than minValidityPeriod left.
TooOld(entry) == Until(entry.ExpirationTime) < minValidityPeriod

Miss == [data |-> Nil, found |-> FALSE]

\* A variant of Get that returns what the file holds without parsing or expiry test.
GetTrusting(fs, c, key) ==
    LET r == ReadFile(fs, getCacheFilePath(c, key))
    IN  IF r.err THEN Miss
        ELSE [data |-> IF r.data.kind = "json" THEN r.data.exec_credential ELSE r.data,
              found |-> TRUE]
\* Cache.Get on file system fs.
Get(fs, c, key) ==
    LET cacheFile == getCacheFilePath(c, key)
        r == ReadFile(fs, cacheFile)
    IN  IF r.err THEN Miss
        ELSE LET u == Unmarshal(r.data)
             IN  IF u.err THEN Miss
                 ELSE IF TooOld(u.entry) THEN Miss
                 ELSE [data |-> u.entry.ExecCredential, found |-> TRUE]

\* A variant of Get's effect on the files that removes the file of an entry
\* that Get does not return.
FilesAfterGetEvicting(fs, c, key) ==
    IF Get(fs, c, key).found \/ fs[getCacheFilePath(c, key)].kind = "absent" THEN fs
    ELSE [fs EXCEPT ![getCacheFilePath(c, key)] = Absent]
\* Cache.Get's effect on the files: it calls os.ReadFile and nothing else on
\* the file system, on every path through it.
FilesAfterGet(fs, c, key) == fs

\* A variant of Put that merges: it keeps an entry already in the file when
\* that entry expires later than the one it is handed.
PutOutcomesKeepingLater(fs, c, key, execCredential, expirationTime) ==
    LET entry == [ExecCredential |-> execCredential, ExpirationTime |-> expirationTime]
        cacheFile == getCacheFilePath(c, key)
        keep == fs[cacheFile].kind = "json" /\ fs[cacheFile].expiration_time > expirationTime
    IN  {[err |-> FALSE,
          fs |-> IF keep THEN fs ELSE [fs EXCEPT ![cacheFile] = Marshal(entry)]],
         [err |-> TRUE, fs |-> fs],
         [err |-> TRUE, fs |-> [fs EXCEPT ![cacheFile] = Garbage]]}
\* Cache.Put on file system fs: the outcomes of os.WriteFile.  A write that
\* fails leaves the file as it was (it could not be opened) or torn (it was
\* truncated and the write did not complete).
PutOutcomes(fs, c, key, execCredential, expirationTime) ==
    LET entry == [ExecCredential |-> execCredential, ExpirationTime |-> expirationTime]
        cacheFile == getCacheFilePath(c, key)
    IN  {[err |-> FALSE, fs |-> [fs EXCEPT ![cacheFile] = Marshal(entry)]],
         [err |-> TRUE, fs |-> fs],
         [err |-> TRUE, fs |-> [fs EXCEPT ![cacheFile] = Garbage]]}

\* NewCache: the first candidate directory that can be created, or an error.
NewCache(ok) ==
    IF Dirs[1] \in ok THEN [err |-> FALSE, cache |-> [cacheDir |-> Dirs[1]]]
    ELSE IF Dirs[2] \in ok THEN [err |-> FALSE, cache |-> [cacheDir |-> Dirs[2]]]
    ELSE IF Dirs[3] \in ok THEN [err |-> FALSE, cache |-> [cacheDir |-> Dirs[3]]]
    ELSE [err |-> TRUE, cache |-> Nil]

----------------------------------------------------------------------------
(* The cache API called directly: Put and Get on one Cache, the clock, and the
   environment changing the files behind the cache's back. *)

\* The Cache the API calls are made on.
apiCache == NewCache(creatable).cache

\* The expiration times Put is handed: around minValidityPeriod from now.
Exps == {now + d : d \in {minValidityPeriod - 1, minValidityPeriod, minValidityPeriod + 1}}

\* (was: history, whether Get would have found the key just before a Put.)
NoCall ==
    [op |-> "none", key |-> Nil, data |-> Nil, found |-> FALSE, err |-> FALSE, at |-> 0,
     was |-> FALSE]

\* A call Put(key, v, exp).
CachePut(key, v, exp) ==
    \E o \in PutOutcomes(files, apiCache, key, v, exp) :
        /\ files' = o.fs
        /\ lastPut' = [lastPut EXCEPT ![getCacheFilePath(apiCache, key)] =
                          IF ~o.err THEN [key |-> key, v |-> v, exp |-> exp]
                          ELSE IF o.fs = files THEN @ ELSE Nil]
        /\ ret' = [op |-> "Put", key |-> key, data |-> Nil, found |-> FALSE, err |-> o.err,
                   at |-> now, was |-> Get(files, apiCache, key).found]
        /\ UNCHANGED <<now, runVars, pathVars>>

\* A call Get(key).
CacheGet(key) ==
    LET g == Get(files, apiCache, key)
    IN  /\ ret' = [op |-> "Get", key |-> key, data |-> g.data, found |-> g.found, err |-> FALSE,
                   at |-> now, was |-> FALSE]
        /\ files' = FilesAfterGet(files, apiCache, key)
        /\ UNCHANGED <<now, lastPut, runVars, pathVars>>

\* A minute passes: between runs, or within a run that has not yet taken
\* MaxElapsed minutes.
Tick ==
    /\ now < MaxTime
    /\ now' = now + 1
    /\ IF pc \in {"idle", "exited"}
       THEN elapsed' = elapsed
       ELSE elapsed < MaxElapsed /\ elapsed' = elapsed + 1
    /\ UNCHANGED <<cacheVars, creatable, pc, cfg, credCache, presignedURL, execCred,
                   stdout, err, did, filesAtStart, pathVars>>

\* The environment deletes a cache file, makes it unreadable or overwrites it.
Tamper(path, content) ==
    /\ path.dir = apiCache.cacheDir
    /\ files[path] # content
    /\ files' = [files EXCEPT ![path] = content]
    /\ lastPut' = [lastPut EXCEPT ![path] = Nil]
    /\ ret' = [NoCall EXCEPT !.op = "env", !.at = now]
    /\ UNCHANGED <<now, runVars, pathVars>>

InitRunIdle ==
    /\ pc = "idle"
    /\ cfg = Nil
    /\ credCache = Nil
    /\ presignedURL = Nil
    /\ execCred = Nil
    /\ stdout = <<>>
    /\ err = NoError
    /\ did = {}
    /\ filesAtStart = files
    /\ elapsed = 0

\* No call of the other functions is in progress.
InitCallIdle ==
    /\ input = Nil
    /\ output = Nil

\* No goroutine uses the cache.
InitRaceIdle ==
    /\ disk = <<>>
    /\ gs = <<>>

\* No URL is being signed.
InitSignIdle ==
    sign = Nil

InitPathIdle ==
    /\ pkey = Nil
    /\ ppath = Nil
    /\ InitCallIdle
    /\ InitRaceIdle
    /\ InitSignIdle

InitCacheState ==
    /\ now = 0
    /\ files = [p \in Paths |-> Absent]
    /\ lastPut = [p \in Paths |-> Nil]
    /\ ret = NoCall

InitCacheAPI ==
    /\ InitCacheState
    /\ creatable = DirSet
    /\ InitRunIdle
    /\ InitPathIdle

NextCacheAPI ==
    \/ \E key \in Keys, v \in Blobs, exp \in Exps : CachePut(key, v, exp)
    \/ \E key \in Keys : CacheGet(key)
    \/ Tick
    \/ \E path \in Paths, content \in {Absent, Unreadable, Garbage, EmptyObject} :
          Tamper(path, content)

\* The cache API under every order of calls.
SpecCache == InitCacheAPI /\ [][NextCacheAPI]_vars

----------------------------------------------------------------------------
(* getCacheFilePath as a pure function of the key. *)

ComputePath ==
    /\ ppath = Nil
    /\ ppath' = getCacheFilePath(apiCache, pkey)
    /\ UNCHANGED <<now, cacheVars, runVars, pkey, callVars, raceVars, signVars>>

InitPath ==
    /\ InitCacheState
    /\ creatable = DirSet
    /\ InitRunIdle
    /\ pkey \in PathKeys
    /\ ppath = Nil
    /\ InitCallIdle
    /\ InitRaceIdle
    /\ InitSignIdle

NextPath == ComputePath

SpecPath == InitPath /\ [][NextPath]_vars

----------------------------------------------------------------------------
(* Claims about the cache. *)

\* The path of the key of the last cache API call.
retPath == getCacheFilePath(apiCache, ret.key)

C3_PutLeavesOtherKeys ==
    [][ret'.op = "Put" =>
          \A k \in Keys \ {ret'.key} : Get(files', apiCache, k) = Get(files, apiCache, k)]_vars

Contains(s, ch) == \E i \in DOMAIN s : s[i] = ch

\* C4: for a key with '/' or ':' in any of its three components, the file name
\* getCacheFilePath derives holds neither '/' nor ':'.
C4_FileNameSanitized ==
    (/\ ppath # Nil
     /\ \E ch \in {"/", ":"} : \/ Contains(pkey.AWSRoleARN, ch)
                               \/ Contains(pkey.EKSClusterName, ch)
                               \/ Contains(pkey.STSRegion, ch))
        => ~Contains(ppath.base, "/") /\ ~Contains(ppath.base, ":")

\* C5: Get reports no error, and answers a missing or unreadable file, content
\* that is no cache entry and an entry with less than minValidityPeriod left
\* alike, with (nil, false).
C5_GetMissNeverError ==
    ret.op = "Get" =>
        /\ ~ret.err
        /\ (\/ files[retPath].kind \in {"absent", "unreadable", "garbage", "emptyobj"}
            \/ /\ files[retPath].kind = "json"
               /\ files[retPath].expiration_time - ret.at < minValidityPeriod)
              => (ret.data = Nil /\ ~ret.found)

\* C5's case: a Get of a file whose content does not parse.
C5_Witness ==
    /\ ret.op = "Get"
    /\ files[retPath].kind = "garbage"
    /\ ~ret.found

----------------------------------------------------------------------------
(* pkg/k8s/credentials.go *)

TokenV1Prefix == "k8s-aws-v1."

\* A time.Time is a number of ticks, TicksPerSecond to the second; the clock
\* `now` counts whole minutes.
TicksPerSecond == 2
SecondsPerMinute == 60
Minute == SecondsPerMinute * TicksPerSecond
Minutes(m) == m * Minute

\* A URL string is a sequence of bytes; a token is the prefix followed by
\* characters.
Upper == <<"A", "B", "C", "D", "E", "F", "G", "H", "I", "J", "K", "L", "M",
           "N", "O", "P", "Q", "R", "S", "T", "U", "V", "W", "X", "Y", "Z">>
Lower == <<"a", "b", "c", "d", "e", "f", "g", "h", "i", "j", "k", "l", "m",
           "n", "o", "p", "q", "r", "s", "t", "u", "v", "w", "x", "y", "z">>
Digits == <<"0", "1", "2", "3", "4", "5", "6", "7", "8", "9">>

\* The alphabets of base64.StdEncoding and base64.URLEncoding.
StdAlphabet == Upper \o Lower \o Digits \o <<"+", "/">>
URLAlphabet == Upper \o Lower \o Digits \o <<"-", "_">>

\* The characters of the sextets of n, the most significant first.
Sextets(alphabet, n, count) ==
    [i \in 1..count |-> alphabet[((n \div (64 ^ (count - i))) % 64) + 1]]

\* Encoding without padding: three bytes give four characters, a last single
\* byte two, and a last pair three.
RECURSIVE EncodeWith(_, _)
EncodeWith(alphabet, src) ==
    IF Len(src) = 0 THEN <<>>
    ELSE IF Len(src) = 1 THEN Sextets(alphabet, src[1] * 16, 2)
    ELSE IF Len(src) = 2 THEN Sextets(alphabet, (src[1] * 256 + src[2]) * 4, 3)
    ELSE Sextets(alphabet, src[1] * 65536 + src[2] * 256 + src[3], 4)
            \o EncodeWith(alphabet, SubSeq(src, 4, Len(src)))

EncodeToStringStd(src) == EncodeWith(StdAlphabet, src)
\* base64.RawURLEncoding.EncodeToString
EncodeToString(src) == EncodeWith(URLAlphabet, src)

\* metav1.Time in JSON: RFC 3339 to the second, written here as the number of
\* whole seconds it denotes.
MarshalTime(t) == t \div TicksPerSecond

\* A variant of GenerateExecCredential that adds the buffer.
GenerateExecCredentialLate(url, expiration) ==
    [apiVersion |-> "client.authentication.k8s.io/v1beta1",
     kind |-> "ExecCredential",
     status |-> [token |-> <<TokenV1Prefix>> \o EncodeToString(url.text),
                 expirationTimestamp |->
                     MarshalTime(expiration + TokenExpirationBuffer * Minute)]]
\* GenerateExecCredential(presignedURL, expiration): the ExecCredential whose
\* token is the prefix and the encoded URL and whose expirationTimestamp is
\* the expiration less the buffer.
GenerateExecCredential(url, expiration) ==
    [apiVersion |-> "client.authentication.k8s.io/v1beta1",
     kind |-> "ExecCredential",
     status |-> [token |-> <<TokenV1Prefix>> \o EncodeToString(url.text),
                 expirationTimestamp |->
                     MarshalTime(expiration - TokenExpirationBuffer * Minute)]]

----------------------------------------------------------------------------
(* The session identifier (pkg/gcp, and createSessionIdentifier of the      *)
(* earlier main). *)

MaxSessionIDLen == 32

\* n times the character ch.
Repeat(ch, n) == [i \in 1..n |-> ch]

\* fmt.Sprintf("%s-%s", projectID, hostname)
JoinIdentity(projectID, hostname) == projectID \o <<"-">> \o hostname

\* What a function returning (string, error) returned, or that it panicked.
Returned(s) == [err |-> NoError, value |-> s, panicked |-> FALSE]
Failed(e) == [err |-> e, value |-> <<>>, panicked |-> FALSE]
Panicked == [err |-> NoError, value |-> <<>>, panicked |-> TRUE]

\* CreateSessionIdentifier of HybridMetadata and of GCPMetadata, given what
\* ProjectID and Hostname returned.
SessionIdentifier(project, host) ==
    IF project.err # NoError THEN Failed(project.err)
    ELSE IF host.err # NoError THEN Failed(host.err)
    ELSE LET sessionID == JoinIdentity(project.value, host.value)
         IN  IF Len(sessionID) > MaxSessionIDLen
             THEN Returned(SubSeq(sessionID, 1, MaxSessionIDLen))
             ELSE Returned(sessionID)

\* createSessionIdentifier: the slice expression [:32] panics on a shorter
\* string.
createSessionIdentifier(project, host) ==
    IF project.err # NoError THEN Failed(project.err)
    ELSE IF host.err # NoError THEN Failed(host.err)
    ELSE LET sessionID == JoinIdentity(project.value, host.value)
         IN  IF Len(sessionID) < MaxSessionIDLen
             THEN Panicked
             ELSE Returned(SubSeq(sessionID, 1, MaxSessionIDLen))

\* The lengths of the identities tried: the joined string is shorter than,
\* exactly, and longer than the limit.
IdentityLens == {1, 15, 16, 17, 32}

\* What the metadata lookups return.
ProjectResults ==
    {Returned(Repeat("p", n)) : n \in IdentityLens}
        \cup {Failed("failed to fetch ProjectID from GCP metadata")}
HostResults ==
    {Returned(Repeat("h", n)) : n \in IdentityLens}
        \cup {Failed("failed to fetch Hostname from GCP metadata")}

SessionIdentifierInputs ==
    [op : {"CreateSessionIdentifier"}, file : {"hybrid_metadata.go", "part_008"},
     project : ProjectResults, host : HostResults]

\* A call of CreateSessionIdentifier or createSessionIdentifier.
CallCreateSessionIdentifier ==
    /\ input # Nil
    /\ input.op = "CreateSessionIdentifier"
    /\ output = Nil
    /\ output' = IF input.file = "part_008"
                 THEN createSessionIdentifier(input.project, input.host)
                 ELSE SessionIdentifier(input.project, input.host)
    /\ UNCHANGED <<now, cacheVars, runVars, pkey, ppath, input, raceVars, signVars>>

\* The shorter of two lengths.
Min(a, b) == IF a < b THEN a ELSE b

\* C17: when both lookups succeed the session identifier is the first
\* min(32, length) characters of project-host, non-empty and at most 32 long,
\* and computing it fails only when a lookup fails.
C17_SessionIdentifierTruncated ==
    (input # Nil /\ input.op = "CreateSessionIdentifier" /\ output # Nil) =>
        LET joined == JoinIdentity(input.project.value, input.host.value)
            lookupFailed == input.project.err # NoError \/ input.host.err # NoError
        IN  /\ ~output.panicked
            /\ output.err # NoError => lookupFailed
            /\ ~lookupFailed =>
                  /\ output.err = NoError
                  /\ output.value = SubSeq(joined, 1, Min(MaxSessionIDLen, Len(joined)))
                  /\ Len(output.value) >= 1
                  /\ Len(output.value) <= MaxSessionIDLen

----------------------------------------------------------------------------
(* The hybrid metadata provider (pkg/gcp/hybrid_metadata.go). *)

letterBytes == Lower \o Digits

MaxRandLen == 3
SuffixLen == 8

\* A variant of generateRandomString that gives up when the random source
\* fails.
generateRandomStringOrNothing(n, readOk, r) ==
    IF ~readOk
    THEN <<>>
    ELSE [i \in 1..n |-> letterBytes[(r[i] % Len(letterBytes)) + 1]]
\* generateRandomString(n), given whether rand.Read succeeded and the bytes r
\* it delivered.
generateRandomString(n, readOk, r) ==
    IF ~readOk
    THEN [i \in 1..n |-> letterBytes[((i - 1) % Len(letterBytes)) + 1]]
    ELSE [i \in 1..n |-> letterBytes[(r[i] % Len(letterBytes)) + 1]]

ExternalProject ==
    <<"e", "x", "t", "e", "r", "n", "a", "l", "-", "p", "r", "o", "j", "e", "c", "t", "-">>
ExternalHost ==
    <<"e", "x", "t", "e", "r", "n", "a", "l", "-", "h", "o", "s", "t", "-">>

\* (*HybridMetadata).ProjectID, given what the metadata service would return.
ProjectID(isOnGCP, metadataResult, readOk, r) ==
    IF isOnGCP
    THEN metadataResult
    ELSE Returned(ExternalProject \o generateRandomString(SuffixLen, readOk, r))

\* (*HybridMetadata).Hostname, given what the metadata service and what
\* os.Hostname would return.
Hostname(isOnGCP, metadataResult, osHostname, readOk, r) ==
    IF isOnGCP
    THEN metadataResult
    ELSE IF osHostname.err = NoError
    THEN Returned(osHostname.value)
    ELSE Returned(ExternalHost \o generateRandomString(SuffixLen, readOk, r))

\* The bytes the random source delivers.
RandBytes == {0, 35, 36, 255}
CoarseRandBytes == {0, 255}

\* One successful and one failed lookup.
ProjectLookups == {Returned(<<"p">>), Failed("failed to fetch ProjectID from GCP metadata")}
HostLookups == {Returned(<<"h">>), Failed("failed to fetch Hostname from GCP metadata")}
OSHostnames == {Returned(<<"l">>), Failed("hostname: not available")}

RandomStringInputs ==
    UNION {[op : {"generateRandomString"}, n : {n}, readOk : BOOLEAN,
            r : [1..n -> RandBytes]] : n \in 0..MaxRandLen}
ProjectIDInputs ==
    [op : {"ProjectID"}, isOnGCP : BOOLEAN, metadataResult : ProjectLookups,
     readOk : BOOLEAN, r : [1..SuffixLen -> CoarseRandBytes]]
HostnameInputs ==
    [op : {"Hostname"}, isOnGCP : BOOLEAN, metadataResult : HostLookups,
     osHostname : OSHostnames, readOk : BOOLEAN, r : [1..SuffixLen -> CoarseRandBytes]]

\* Calls of generateRandomString, ProjectID and Hostname.
CallGenerateRandomString ==
    /\ input # Nil
    /\ input.op = "generateRandomString"
    /\ output = Nil
    /\ output' = Returned(generateRandomString(input.n, input.readOk, input.r))
    /\ UNCHANGED <<now, cacheVars, runVars, pkey, ppath, input, raceVars, signVars>>

CallProjectID ==
    /\ input # Nil
    /\ input.op = "ProjectID"
    /\ output = Nil
    /\ output' = ProjectID(input.isOnGCP, input.metadataResult, input.readOk, input.r)
    /\ UNCHANGED <<now, cacheVars, runVars, pkey, ppath, input, raceVars, signVars>>

CallHostname ==
    /\ input # Nil
    /\ input.op = "Hostname"
    /\ output = Nil
    /\ output' = Hostname(input.isOnGCP, input.metadataResult, input.osHostname,
                          input.readOk, input.r)
    /\ UNCHANGED <<now, cacheVars, runVars, pkey, ppath, input, raceVars, signVars>>

\* The characters a to z and 0 to 9.
Alphanumeric ==
    {"a", "b", "c", "d", "e", "f", "g", "h", "i", "j", "k", "l", "m", "n", "o", "p", "q",
     "r", "s", "t", "u", "v", "w", "x", "y", "z",
     "0", "1", "2", "3", "4", "5", "6", "7", "8", "9"}

\* s has exactly n characters, all of them alphanumeric.
IsRandomString(s, n) == Len(s) = n /\ \A i \in DOMAIN s : s[i] \in Alphanumeric

\* C19: off the platform ProjectID and Hostname return no error, the project
\* identity is "external-project-" and 8 alphanumeric characters, and
\* generateRandomString(n) returns n alphanumeric characters, whether or not
\* the random source works.
C19_FallbackIdentity ==
    (input # Nil /\ output # Nil) =>
        /\ (input.op = "ProjectID" /\ ~input.isOnGCP) =>
              /\ output.err = NoError
              /\ ~output.panicked
              /\ Len(output.value) = Len(ExternalProject) + 8
              /\ SubSeq(output.value, 1, Len(ExternalProject)) = ExternalProject
              /\ IsRandomString(SubSeq(output.value, Len(ExternalProject) + 1,
                                       Len(output.value)), 8)
        /\ (input.op = "Hostname" /\ ~input.isOnGCP) =>
              (output.err = NoError /\ ~output.panicked)
        /\ input.op = "generateRandomString" =>
              IsRandomString(output.value, input.n)

\* C19's case: the project identity off the platform when the random source
\* fails.
C19_Witness ==
    /\ input # Nil
    /\ output # Nil
    /\ input.op = "ProjectID"
    /\ ~input.isOnGCP
    /\ ~input.readOk
    /\ output.err = NoError

----------------------------------------------------------------------------
(* main.go: run() and main(), one process after another on one file system. *)

\* The keys run() is started with: two roles that differ and sanitize alike.
RunKeys == {k \in Keys : k.AWSRoleARN # <<"c">>}

\* The configurations LoadFromFlags accepts, as far as run() reads them here.
Configs == [Cache : BOOLEAN, key : RunKeys, HybridMode : BOOLEAN]

\* What a failed write to os.Stdout may have left on it.
Partial == [kind |-> "partial"]

\* The text of the URL the signer returns, up to the signing time.
URLText == <<104, 47>>

\* The text of a URL signed at time t: the signer writes the signing time
\* into the URL (X-Amz-Date), here as one byte.
SignedURLText(t) == URLText \o <<t>>

\* The signing time a URL's text carries.
SigningTime(text) == text[Len(text)]

\* main(): the exit status for what run() returned.
ExitCode(e) == IF e = NoError THEN 0 ELSE 1

\* A variant of UseCache without the test of cfg.Cache.
UseCacheUnguarded == TRUE
\* The guard of main.go:66 and main.go:134.
UseCache == cfg.Cache /\ credCache # Nil

\* A variant of Abort that reports the error on os.Stdout.
AbortLoggingToStdout(e) ==
    /\ pc' = "exited"
    /\ err' = e
    /\ stdout' = Append(stdout, Partial)
\* return fmt.Errorf(...): run() ends with error e.
Abort(e) ==
    /\ pc' = "exited"
    /\ err' = e
    /\ stdout' = stdout

\* A method called on a nil *Cache: the process panics.
Panic ==
    /\ pc' = "exited"
    /\ err' = "panic: nil pointer dereference"
    /\ stdout' = stdout

\* fmt.Fprint(os.Stdout, string(bytes)), then return, in a run that has made
\* the calls d: the write succeeds, or fails having written nothing or a part.
WriteAndReturn(d, bytes, e) ==
    /\ pc' = "exited"
    /\ \/ /\ stdout' = Append(stdout, bytes)
          /\ err' = NoError
          /\ did' = d \cup {"Fprint"}
       \/ /\ stdout' \in {stdout, Append(stdout, Partial)}
          /\ err' = e
          /\ did' = d \cup {"Fprint", "Fprint failed"}

\* A process starts: main.go:31-45, the flags and the logger.
LoadConfig ==
    /\ pc \in {"idle", "exited"}
    /\ did' = {}
    /\ filesAtStart' = files
    /\ elapsed' = 0
    /\ credCache' = Nil
    /\ presignedURL' = Nil
    /\ execCred' = Nil
    /\ \/ /\ cfg' \in Configs
          /\ pc' = "NewCache"
          /\ err' = NoError
          /\ stdout' = <<>>
       \/ /\ cfg' = Nil
          /\ pc' = "exited"
          /\ err' \in {"failed to load configuration", "failed to initialize logger"}
          /\ stdout' = <<>>
    /\ UNCHANGED <<now, cacheVars, creatable, pathVars>>

\* main.go:47-56
InitializeCache ==
    /\ pc = "NewCache"
    /\ IF cfg.Cache
       THEN LET r == NewCache(creatable)
            IN  IF r.err
                THEN /\ Abort("failed to initialize cache")
                     /\ credCache' = credCache
                ELSE /\ credCache' = r.cache
                     /\ pc' = "Get"
                     /\ UNCHANGED <<err, stdout>>
       ELSE /\ pc' = "Get"
            /\ UNCHANGED <<credCache, err, stdout>>
    /\ UNCHANGED <<now, cacheVars, creatable, cfg, presignedURL, execCred, did,
                   filesAtStart, elapsed, pathVars>>

\* A variant of CheckCache without the return after the cached bytes are written.
CheckCacheFallingThrough ==
    /\ pc = "Get"
    /\ IF UseCache /\ credCache # Nil
       THEN LET g == Get(files, credCache, cfg.key)
            IN  /\ pc' = "CreateSessionIdentifier"
                /\ did' = did \cup (IF g.found THEN {"Get", "hit"} ELSE {"Get"})
                /\ stdout' = IF g.found THEN Append(stdout, g.data) ELSE stdout
                /\ err' = err
       ELSE /\ pc' = "CreateSessionIdentifier"
            /\ UNCHANGED <<did, err, stdout>>
    /\ UNCHANGED <<now, cacheVars, creatable, cfg, credCache, presignedURL, execCred,
                   filesAtStart, elapsed, pathVars>>
\* main.go:65-74
CheckCache ==
    /\ pc = "Get"
    /\ IF UseCache
       THEN IF credCache = Nil
            THEN /\ Panic
                 /\ did' = did \cup {"Get"}
            ELSE LET g == Get(files, credCache, cfg.key)
                 IN  IF g.found
                     THEN WriteAndReturn(did \cup {"Get", "hit"}, g.data,
                                         "failed to write cached credential")
                     ELSE /\ pc' = "CreateSessionIdentifier"
                          /\ did' = did \cup {"Get"}
                          /\ UNCHANGED <<err, stdout>>
       ELSE /\ pc' = "CreateSessionIdentifier"
            /\ UNCHANGED <<did, err, stdout>>
    /\ UNCHANGED <<now, cacheVars, creatable, cfg, credCache, presignedURL, execCred,
                   filesAtStart, elapsed, pathVars>>

\* A call of run() that sets no variable of the model: it succeeds and run()
\* goes on to next, or fails and run() returns e.
Stage(name, next, e) ==
    /\ pc = name
    /\ \/ /\ pc' = next
          /\ did' = did \cup {name}
          /\ UNCHANGED <<err, stdout>>
       \/ /\ Abort(e)
          /\ did' = did \cup {name, "failed"}
    /\ UNCHANGED <<now, cacheVars, creatable, cfg, credCache, presignedURL, execCred,
                   filesAtStart, elapsed, pathVars>>

\* What CreateSessionIdentifier of the provider run() chose returns: the hybrid
\* provider, which found itself on the platform or not when it was made, or
\* the provider that only asks the metadata service.
ProviderSessionIdentifier(hybridMode, isOnGCP, project, host, osHostname, readOk, r) ==
    IF hybridMode
    THEN SessionIdentifier(ProjectID(isOnGCP, project, readOk, r),
                           Hostname(isOnGCP, host, osHostname, readOk, r))
    ELSE SessionIdentifier(project, host)

\* main.go:76-90: the provider is made, which finds out whether it is on the
\* platform, and asked for the session identifier; the metadata service and
\* os.Hostname answer or fail.
CreateSessionIdentifier ==
    /\ pc = "CreateSessionIdentifier"
    /\ \E isOnGCP \in BOOLEAN, project \in ProjectLookups, host \in HostLookups,
          osHostname \in OSHostnames, readOk \in BOOLEAN :
          LET sessionID == ProviderSessionIdentifier(cfg.HybridMode, isOnGCP, project, host,
                                                     osHostname, readOk,
                                                     [i \in 1..SuffixLen |-> 0])
              unreachable == project.err # NoError \/ host.err # NoError
              marks == IF unreachable THEN {"metadata unreachable"} ELSE {}
          IN  IF sessionID.err # NoError
              THEN /\ Abort("failed to create session identifier")
                   /\ did' = did \cup {"CreateSessionIdentifier", "failed"} \cup marks
              ELSE /\ pc' = "GetIdentityToken"
                   /\ did' = did \cup {"CreateSessionIdentifier"} \cup marks
                   /\ UNCHANGED <<err, stdout>>
    /\ UNCHANGED <<now, cacheVars, creatable, cfg, credCache, presignedURL, execCred,
                   filesAtStart, elapsed, pathVars>>

\* main.go:94-98
GetIdentityToken ==
    Stage("GetIdentityToken", "NewAuthenticator", "failed to get GCP identity token")

\* main.go:103-107
NewAuthenticator ==
    Stage("NewAuthenticator", "GetCredentials", "failed to create AWS authenticator")

\* main.go:109-113
GetCredentials ==
    Stage("GetCredentials", "GetPresignedCallerIdentityURL", "failed to get AWS credentials")

\* main.go:117-121: the URL is signed now.
GetPresignedCallerIdentityURL ==
    /\ pc = "GetPresignedCallerIdentityURL"
    /\ \/ /\ presignedURL' = [text |-> SignedURLText(now), cluster |-> cfg.key.EKSClusterName,
                              signedAt |-> now]
          /\ pc' = "GenerateExecCredential"
          /\ did' = did \cup {"GetPresignedCallerIdentityURL"}
          /\ UNCHANGED <<err, stdout>>
       \/ /\ Abort("failed to get presigned URL")
          /\ did' = did \cup {"GetPresignedCallerIdentityURL", "failed"}
          /\ presignedURL' = presignedURL
    /\ UNCHANGED <<now, cacheVars, creatable, cfg, credCache, execCred, filesAtStart,
                   elapsed, pathVars>>

\* A variant of FormatCredential after which run() writes the credential
\* without storing it first.
FormatCredentialSkippingStore ==
    /\ pc = "GenerateExecCredential"
    /\ \/ /\ execCred' = GenerateExecCredential(presignedURL,
                                                Minutes(now + presignedURLExpiration))
          /\ pc' = "Fprint"
          /\ did' = did \cup {"GenerateExecCredential"}
          /\ UNCHANGED <<err, stdout>>
       \/ /\ Abort("failed to generate exec credential")
          /\ did' = did \cup {"GenerateExecCredential", "failed"}
          /\ execCred' = execCred
    /\ UNCHANGED <<now, cacheVars, creatable, cfg, credCache, presignedURL, filesAtStart,
                   elapsed, pathVars>>
\* main.go:123-131
FormatCredential ==
    /\ pc = "GenerateExecCredential"
    /\ \/ /\ execCred' = GenerateExecCredential(presignedURL,
                                                Minutes(now + presignedURLExpiration))
          /\ pc' = "Put"
          /\ did' = did \cup {"GenerateExecCredential"}
          /\ UNCHANGED <<err, stdout>>
       \/ /\ Abort("failed to generate exec credential")
          /\ did' = did \cup {"GenerateExecCredential", "failed"}
          /\ execCred' = execCred
    /\ UNCHANGED <<now, cacheVars, creatable, cfg, credCache, presignedURL, filesAtStart,
                   elapsed, pathVars>>

\* A variant of StoreCache that returns the error of Put.
StoreCachePropagating ==
    /\ pc = "Put"
    /\ IF UseCache
       THEN \E o \in PutOutcomes(files, credCache, cfg.key, execCred,
                                 now + presignedURLExpiration) :
                /\ files' = o.fs
                /\ lastPut' = [lastPut EXCEPT ![getCacheFilePath(credCache, cfg.key)] =
                                  IF ~o.err
                                  THEN [key |-> cfg.key, v |-> execCred,
                                        exp |-> now + presignedURLExpiration]
                                  ELSE IF o.fs = files THEN @ ELSE Nil]
                /\ did' = did \cup (IF o.err THEN {"Put", "Put failed"} ELSE {"Put"})
                /\ IF o.err
                   THEN Abort("failed to cache credential")
                   ELSE pc' = "Fprint" /\ UNCHANGED <<stdout, err>>
       ELSE pc' = "Fprint" /\ UNCHANGED <<files, lastPut, did, stdout, err>>
    /\ UNCHANGED <<now, ret, creatable, cfg, credCache, presignedURL, execCred,
                   filesAtStart, elapsed, pathVars>>
\* main.go:133-138
StoreCache ==
    /\ pc = "Put"
    /\ pc' = "Fprint"
    /\ IF UseCache
       THEN \E o \in PutOutcomes(files, credCache, cfg.key, execCred,
                                 now + presignedURLExpiration) :
                /\ files' = o.fs
                /\ lastPut' = [lastPut EXCEPT ![getCacheFilePath(credCache, cfg.key)] =
                                  IF ~o.err
                                  THEN [key |-> cfg.key, v |-> execCred,
                                        exp |-> now + presignedURLExpiration]
                                  ELSE IF o.fs = files THEN @ ELSE Nil]
                /\ did' = did \cup (IF o.err THEN {"Put", "Put failed"} ELSE {"Put"})
       ELSE UNCHANGED <<files, lastPut, did>>
    /\ UNCHANGED <<now, ret, creatable, cfg, credCache, presignedURL, execCred, stdout,
                   err, filesAtStart, elapsed, pathVars>>

\* main.go:140-145
WriteCredential ==
    /\ pc = "Fprint"
    /\ WriteAndReturn(did, execCred, "failed to write exec credential")
    /\ UNCHANGED <<now, cacheVars, creatable, cfg, credCache, presignedURL, execCred,
                   filesAtStart, elapsed, pathVars>>

Init ==
    /\ InitCacheState
    /\ creatable \in {DirSet, {Dirs[2], Dirs[3]}, {Dirs[3]}, {}}
    /\ InitRunIdle
    /\ InitPathIdle

Next ==
    \/ LoadConfig
    \/ InitializeCache
    \/ CheckCache
    \/ CreateSessionIdentifier
    \/ GetIdentityToken
    \/ NewAuthenticator
    \/ GetCredentials
    \/ GetPresignedCallerIdentityURL
    \/ FormatCredential
    \/ StoreCache
    \/ WriteCredential
    \/ Tick

\* Runs of the program, one after another, sharing the cache directories.
Spec == Init /\ [][Next]_vars

----------------------------------------------------------------------------
(* Claims about the orchestrator. *)

\* The calls of the exchange pipeline.
PipelineCalls ==
    {"CreateSessionIdentifier", "GetIdentityToken", "NewAuthenticator", "GetCredentials",
     "GetPresignedCallerIdentityURL", "GenerateExecCredential"}

\* The errors run() returns when a call of the pipeline fails.
PipelineErrors ==
    {"failed to create session identifier", "failed to get GCP identity token",
     "failed to create AWS authenticator", "failed to get AWS credentials",
     "failed to get presigned URL", "failed to generate exec credential"}

\* C2: with caching enabled and no candidate directory creatable, the run goes
\* on without the cache: it runs the pipeline, and it does not fail because of
\* the cache.
C2_ProceedsWithoutCache ==
    (pc = "exited" /\ cfg # Nil /\ cfg.Cache /\ NewCache(creatable).err) =>
        /\ "CreateSessionIdentifier" \in did
        /\ err # "failed to initialize cache"

\* C6: when a call of FetchIdentity, Federate, Sign or Format fails, the run has
\* ended with that error, the exit status is not zero, and nothing has been
\* written to stdout.
C6_FailureWritesNothing ==
    "failed" \in did =>
        /\ pc = "exited"
        /\ err \in PipelineErrors
        /\ ExitCode(err) # 0
        /\ stdout = <<>>

\* C6's case: the identity token could not be retrieved.
C6_Witness ==
    /\ pc = "exited"
    /\ "failed" \in did
    /\ err = "failed to get GCP identity token"

\* C7: a failed Put is not propagated: the run goes on to write the generated
\* artifact to stdout and, unless that write itself fails, has written exactly
\* the artifact and returns no error.
C7_StoreFailureIgnored ==
    (pc = "exited" /\ "Put failed" \in did) =>
        /\ "Fprint" \in did
        /\ "Fprint failed" \notin did => (err = NoError /\ stdout = <<execCred>>)
        /\ "Fprint failed" \in did => err = "failed to write exec credential"

\* C7's case: the Put failed and the run succeeded.
C7_Witness ==
    /\ pc = "exited"
    /\ "Put failed" \in did
    /\ err = NoError
    /\ stdout = <<execCred>>

\* C8: on a cache hit the run ends at once: it makes no call of the pipeline
\* and no Put, leaves the files alone and, unless the write to stdout fails,
\* has written exactly the cached bytes and returns no error.
C8_HitGoesToDone ==
    "hit" \in did =>
        /\ pc = "exited"
        /\ did \cap (PipelineCalls \cup {"Put"}) = {}
        /\ files = filesAtStart
        /\ "Fprint failed" \notin did =>
              /\ err = NoError
              /\ stdout = <<files[getCacheFilePath(credCache, cfg.key)].exec_credential>>

\* C8's case: a run that hit the cache and wrote the cached artifact.
C8_Witness ==
    /\ pc = "exited"
    /\ "hit" \in did
    /\ err = NoError
    /\ Len(stdout) = 1

\* C9: with caching disabled a run makes no Get and no Put, and the files are
\* as they were when it started.
C9_DisabledCacheUntouched ==
    (cfg # Nil /\ ~cfg.Cache) =>
        /\ did \cap {"Get", "Put"} = {}
        /\ files = filesAtStart

\* C9's case: a run with caching disabled that went through the pipeline while
\* the cache held an entry.
C9_Witness ==
    /\ pc = "exited"
    /\ cfg # Nil
    /\ ~cfg.Cache
    /\ stdout = <<execCred>>
    /\ \E p \in Paths : files[p].kind = "json"

\* C10: the expirationTimestamp of a generated artifact is the signing time of
\* its URL plus the URL's validity less the buffer, and so not after the URL
\* stops being valid.
C10_ExpirationWithinURLValidity ==
    execCred # Nil =>
        /\ execCred.status.expirationTimestamp
              = (presignedURL.signedAt + SignedURLValidity - TokenExpirationBuffer)
                    * SecondsPerMinute
        /\ execCred.status.expirationTimestamp
              <= (presignedURL.signedAt + SignedURLValidity) * SecondsPerMinute

\* Whether a call of run() that waits for the network gives up by itself when no answer comes.  The
\* context all calls get is context.Background() (main.go:149), which has no
\* deadline.  The metadata client behind ProjectID and Hostname is an
\* http.Client with Timeout cfg.HTTPTimeout; GetIdentityToken sends its
\* request with http.DefaultClient, which has no timeout; GetCredentials gets
\* the context and sets no timeout.
HasDeadline(call) == call = "CreateSessionIdentifier"

\* The steps of run() happen when they can; a call that waits for the network
\* returns for certain only if it has a deadline.
Fairness ==
    /\ WF_vars(InitializeCache)
    /\ WF_vars(CheckCache)
    /\ HasDeadline("CreateSessionIdentifier") => WF_vars(CreateSessionIdentifier)
    /\ HasDeadline("GetIdentityToken") => WF_vars(GetIdentityToken)
    /\ WF_vars(NewAuthenticator)
    /\ HasDeadline("GetCredentials") => WF_vars(GetCredentials)
    /\ WF_vars(GetPresignedCallerIdentityURL)
    /\ WF_vars(FormatCredential)
    /\ WF_vars(StoreCache)
    /\ WF_vars(WriteCredential)

\* Runs of the program whose steps are taken when they can be.
SpecLive == Init /\ [][Next]_vars /\ Fairness

\* C28: every run that has started ends, with the credential written or with
\* an error, even if a service it calls never answers.
C28_RunTerminates == (pc = "NewCache") ~> (pc = "exited")

\* The calls of the pipeline in the order run() makes them.
PipelineOrder ==
    <<"CreateSessionIdentifier", "GetIdentityToken", "NewAuthenticator", "GetCredentials",
      "GetPresignedCallerIdentityURL", "GenerateExecCredential">>

\* C26: in a run that does not answer from the cache, a call of the pipeline
\* is made only after the call before it has succeeded; the cache is written
\* only by the store that follows formatting, and a store that succeeds
\* stores the formatted credential; the credential is written to stdout only
\* after formatting and, where the cache is in use, after the store was tried.
C26_StagesInOrder ==
    [][/\ \A i \in 2..Len(PipelineOrder) :
             (PipelineOrder[i] \in did' \ did)
                 => (PipelineOrder[i - 1] \in did /\ "failed" \notin did)
       /\ ("Put" \in did' \ did)
             => /\ PipelineOrder[Len(PipelineOrder)] \in did
                /\ "failed" \notin did
                /\ "Fprint" \notin did
                /\ execCred.kind = "ExecCredential"
                /\ "Put failed" \notin did'
                      => lastPut'[getCacheFilePath(credCache, cfg.key)].v = execCred
       /\ files' # files => "Put" \in did' \ did
       /\ ("Fprint" \in did' \ did /\ "hit" \notin did')
             => /\ PipelineOrder[Len(PipelineOrder)] \in did
                /\ "failed" \notin did
                /\ UseCache => "Put" \in did
                /\ stdout' \in {stdout, Append(stdout, execCred), Append(stdout, Partial)}]_vars

\* C26's case: a run that missed the cache has stored the credential and
\* written it to stdout.
C26_Witness ==
    /\ pc = "exited"
    /\ err = NoError
    /\ "hit" \notin did
    /\ {"Get", "Put", "Fprint"} \subseteq did
    /\ "Put failed" \notin did
    /\ stdout = <<execCred>>

\* C18: in hybrid mode a run in which the metadata service could not be
\* reached while the session identifier was made does not end with the error
\* of that step.
C18_HybridAbsorbsMetadataFailure ==
    (cfg # Nil /\ cfg.HybridMode /\ "metadata unreachable" \in did) =>
        err # "failed to create session identifier"

----------------------------------------------------------------------------
(* Goroutines that use one cache key concurrently.  os.WriteFile is an      *)
(* open that truncates followed by writes at the writer's own offset;       *)
(* os.ReadFile reads until a read returns nothing.  Nothing orders the      *)
(* system calls of different goroutines.                                    *)

NumGoroutines == 2
Goroutines == 1..NumGoroutines

\* The key all goroutines use, and its file.
RaceKey == [AWSRoleARN |-> <<"c">>, EKSClusterName |-> <<"k">>, STSRegion |-> <<"r">>]
RacePath == getCacheFilePath(apiCache, RaceKey)

\* The artifacts the goroutines store.
RaceBlobs == {[kind |-> "bytes", b |-> <<"x", "x">>], [kind |-> "bytes", b |-> <<"y", "y">>]}

\* One byte of a file: a character of the JSON text, or the timestamp.
Char(ch) == [c |-> ch]
Stamp(t) == [t |-> t]
ZeroByte == Char("0")

\* The text json.Marshal produces for an entry.
Encode(j) ==
    <<Char("{")>> \o [i \in DOMAIN j.exec_credential.b |-> Char(j.exec_credential.b[i])]
        \o <<Char(","), Stamp(j.expiration_time), Char("}")>>

\* What json.Unmarshal sees in a text: the entry of a well-formed text, and
\* anything else does not parse.
Decode(text) ==
    LET n == Len(text)
    IN  IF /\ n >= 4
           /\ text[1] = Char("{")
           /\ text[n] = Char("}")
           /\ DOMAIN text[n - 1] = {"t"}
           /\ text[n - 2] = Char(",")
           /\ \A i \in 2..(n - 3) : /\ DOMAIN text[i] = {"c"}
                                    /\ text[i].c \in {"x", "y"}
        THEN [kind |-> "json",
              exec_credential |-> [kind |-> "bytes",
                                   b |-> [i \in 1..(n - 4) |-> text[i + 1].c]],
              expiration_time |-> text[n - 1].t]
        ELSE Garbage

\* write(2) of chunk at offset off.
Overwrite(d, off, chunk) ==
    LET n == IF Len(d) > off + Len(chunk) THEN Len(d) ELSE off + Len(chunk)
    IN  [i \in 1..n |-> IF i > off /\ i <= off + Len(chunk) THEN chunk[i - off]
                        ELSE IF i <= Len(d) THEN d[i]
                        ELSE ZeroByte]

\* The data goroutine g hands to os.WriteFile.
PutData(g) ==
    Encode(Marshal([ExecCredential |-> gs[g].v,
                    ExpirationTime |-> now + presignedURLExpiration]))

\* Put, os.WriteFile: the open with O_TRUNC.
PutOpen(g) ==
    /\ gs[g].pc = "Put"
    /\ disk' = <<>>
    /\ gs' = [gs EXCEPT ![g].pc = "Write", ![g].off = 0]
    /\ UNCHANGED <<now, cacheVars, runVars, pkey, ppath, callVars, signVars>>

\* Put, os.WriteFile: one write; Put returns nil after the last.
PutWrite(g) ==
    /\ gs[g].pc = "Write"
    /\ \E k \in 1..(Len(PutData(g)) - gs[g].off) :
          /\ disk' = Overwrite(disk, gs[g].off,
                               SubSeq(PutData(g), gs[g].off + 1, gs[g].off + k))
          /\ gs' = [gs EXCEPT ![g].off = @ + k,
                              ![g].pc = IF gs[g].off + k = Len(PutData(g))
                                        THEN "Get" ELSE "Write"]
    /\ UNCHANGED <<now, cacheVars, runVars, pkey, ppath, callVars, signVars>>

\* Get, os.ReadFile: one read; after the read that returns nothing Get parses
\* what it has read and returns.
GetRead(g) ==
    /\ gs[g].pc = "Get"
    /\ LET chunk == SubSeq(disk, Len(gs[g].buf) + 1, Len(disk))
       IN  IF chunk # <<>>
           THEN gs' = [gs EXCEPT ![g].buf = @ \o chunk]
           ELSE LET r == Get([files EXCEPT ![RacePath] = Decode(gs[g].buf)],
                             apiCache, RaceKey)
                IN  gs' = [gs EXCEPT ![g].pc = "done", ![g].found = r.found,
                                     ![g].data = r.data]
    /\ UNCHANGED <<now, cacheVars, runVars, pkey, ppath, callVars, disk, signVars>>

InitRace ==
    /\ InitCacheState
    /\ creatable = DirSet
    /\ InitRunIdle
    /\ pkey = Nil
    /\ ppath = Nil
    /\ InitCallIdle
    /\ InitSignIdle
    /\ disk = <<>>
    /\ gs \in [Goroutines -> [pc : {"Put"}, v : RaceBlobs, off : {0}, buf : {<<>>},
                              found : {FALSE}, data : {Nil}]]

NextRace ==
    \E g \in Goroutines : PutOpen(g) \/ PutWrite(g) \/ GetRead(g)

SpecRace == InitRace /\ [][NextRace]_vars

\* C12: every goroutine that has done Put and then Get on the shared key got
\* found = true from its Get.
C12_ConcurrentGetFinds ==
    \A g \in Goroutines : gs[g].pc = "done" => gs[g].found

\* C13: the bytes a Get returns with found = true are the bytes some goroutine
\* passed to Put.
C13_NoMixedValue ==
    \A g \in Goroutines :
        (gs[g].pc = "done" /\ gs[g].found) => gs[g].data \in {gs[h].v : h \in Goroutines}

----------------------------------------------------------------------------
(* The authenticator's constructor (pkg/aws). *)

\* The empty string and a non-empty one.
EmptyString == <<>>
SomeString == <<"a">>

\* A token source.
SomeRetriever == [kind |-> "retriever"]

\* aws.go: a constructed *Authenticator.
Authenticator(roleARN, sessionID, stsRegion, tokenRetriever) ==
    [kind |-> "Authenticator", roleARN |-> roleARN, sessionID |-> sessionID,
     stsRegion |-> stsRegion, tokenRetriever |-> tokenRetriever]

\* aws.go: NewAuthenticator, the constructor with six parameters.
NewAuthenticatorValidating(roleARN, sessionID, stsRegion, tokenRetriever) ==
    IF roleARN = EmptyString
    THEN [err |-> "AWS role ARN is required", auth |-> Nil]
    ELSE IF sessionID = EmptyString
    THEN [err |-> "session ID is required", auth |-> Nil]
    ELSE IF stsRegion = EmptyString
    THEN [err |-> "AWS STS region is required", auth |-> Nil]
    ELSE IF tokenRetriever = Nil
    THEN [err |-> "token retriever is required", auth |-> Nil]
    ELSE [err |-> NoError,
          auth |-> Authenticator(roleARN, sessionID, stsRegion, tokenRetriever)]

\* auth.go: NewAuthenticator, the constructor with five parameters that run()
\* calls; loaded tells whether config.LoadDefaultConfig succeeded.
NewAWSAuthenticator(roleARN, sessionName, region, tokenRetriever, loaded) ==
    IF ~loaded
    THEN [err |-> "failed to load AWS config", auth |-> Nil]
    ELSE [err |-> NoError,
          auth |-> Authenticator(roleARN, sessionName, region, tokenRetriever)]

\* The two constructors the package holds.
Constructors == {"aws.go", "auth.go"}

NewAuthenticatorInputs ==
    [op : {"NewAuthenticator"}, file : Constructors,
     roleARN : {EmptyString, SomeString}, sessionID : {EmptyString, SomeString},
     stsRegion : {EmptyString, SomeString}, tokenRetriever : {Nil, SomeRetriever},
     loaded : BOOLEAN]

\* A call of NewAuthenticator.
CallNewAuthenticator ==
    /\ input # Nil
    /\ input.op = "NewAuthenticator"
    /\ output = Nil
    /\ output' = IF input.file = "aws.go"
                 THEN NewAuthenticatorValidating(input.roleARN, input.sessionID,
                                                 input.stsRegion, input.tokenRetriever)
                 ELSE NewAWSAuthenticator(input.roleARN, input.sessionID,
                                          input.stsRegion, input.tokenRetriever,
                                          input.loaded)
    /\ UNCHANGED <<now, cacheVars, runVars, pkey, ppath, input, raceVars, signVars>>

\* The error each missing argument is to be reported with.
RequiredErrors(i) ==
    (IF i.roleARN = EmptyString THEN {"AWS role ARN is required"} ELSE {})
    \cup (IF i.sessionID = EmptyString THEN {"session ID is required"} ELSE {})
    \cup (IF i.stsRegion = EmptyString THEN {"AWS STS region is required"} ELSE {})
    \cup (IF i.tokenRetriever = Nil THEN {"token retriever is required"} ELSE {})

\* C11: construction with an empty role, session or region or a nil token
\* source fails with the message of a missing argument ("AWS role ARN is
\* required" when the role is empty), and with all four present it succeeds.
C11_ConstructorValidates ==
    (input # Nil /\ input.op = "NewAuthenticator" /\ output # Nil) =>
        /\ input.roleARN = EmptyString => output.err = "AWS role ARN is required"
        /\ RequiredErrors(input) # {} => output.err \in RequiredErrors(input)
        /\ RequiredErrors(input) = {} => (output.err = NoError /\ output.auth # Nil)

----------------------------------------------------------------------------
(* The formatter (pkg/k8s) as a function of its arguments. *)

MaxURLLen == 3

\* The bytes URLs are made of here, and the non-empty URLs.
URLBytes == {0, 47, 104, 255}
URLTexts == UNION {[1..k -> URLBytes] : k \in 1..MaxURLLen}

\* The expirations handed to the formatter: whole minutes and up to a second
\* beyond, in ticks.
CallTimes == {Minutes(m) + f : m \in 0..2, f \in 0..TicksPerSecond}

GenerateExecCredentialInputs ==
    [op : {"GenerateExecCredential"}, url : [text : URLTexts], expiration : CallTimes]

\* A call of GenerateExecCredential.
CallGenerateExecCredential ==
    /\ input # Nil
    /\ input.op = "GenerateExecCredential"
    /\ output = Nil
    /\ output' = [err |-> NoError,
                  cred |-> GenerateExecCredential(input.url, input.expiration)]
    /\ UNCHANGED <<now, cacheVars, runVars, pkey, ppath, input, raceVars, signVars>>

\* Decoding of unpadded URL-safe base64: the position of a character in the
\* alphabet, or -1.
CharIndex(ch) ==
    IF \E i \in DOMAIN URLAlphabet : URLAlphabet[i] = ch
    THEN (CHOOSE i \in DOMAIN URLAlphabet : URLAlphabet[i] = ch) - 1
    ELSE 0 - 1

RECURSIVE DecodeValid(_)
DecodeValid(s) ==
    IF Len(s) = 0 THEN <<>>
    ELSE IF Len(s) = 2
    THEN <<(CharIndex(s[1]) * 64 + CharIndex(s[2])) \div 16>>
    ELSE IF Len(s) = 3
    THEN LET n == (CharIndex(s[1]) * 4096 + CharIndex(s[2]) * 64 + CharIndex(s[3])) \div 4
         IN  <<n \div 256, n % 256>>
    ELSE LET n == CharIndex(s[1]) * 262144 + CharIndex(s[2]) * 4096
                    + CharIndex(s[3]) * 64 + CharIndex(s[4])
         IN  <<n \div 65536, (n \div 256) % 256, n % 256>>
                \o DecodeValid(SubSeq(s, 5, Len(s)))

\* base64.RawURLEncoding.DecodeString
DecodeString(s) ==
    IF (\E i \in DOMAIN s : CharIndex(s[i]) < 0) \/ Len(s) % 4 = 1
    THEN [err |-> TRUE, bytes |-> <<>>]
    ELSE [err |-> FALSE, bytes |-> DecodeValid(s)]

\* The formatter has been called.
Generated ==
    input # Nil /\ input.op = "GenerateExecCredential" /\ output # Nil

\* C14: the expirationTimestamp of a generated artifact is not earlier than
\* the time of the call.
C14_ExpirationNotBeforeNow ==
    Generated => output.cred.status.expirationTimestamp >= now * SecondsPerMinute

\* C15 as stated: the expirationTimestamp is the expiration less one minute,
\* exactly.
C15_ExpirationExact ==
    Generated =>
        output.cred.status.expirationTimestamp * TicksPerSecond
            = input.expiration - TokenExpirationBuffer * Minute

\* C15 as amended: the expirationTimestamp is the whole second in which the
\* expiration less one minute lies.
C15_ExpirationToTheSecond ==
    Generated =>
        LET ts == output.cred.status.expirationTimestamp
            exact == input.expiration - TokenExpirationBuffer * Minute
        IN  /\ ts * TicksPerSecond <= exact
            /\ exact < (ts + 1) * TicksPerSecond

\* C15's case: an expiration that is not a whole second.
C15_Witness ==
    /\ Generated
    /\ input.expiration % TicksPerSecond # 0
    /\ input.expiration > Minute

\* C16: the token is the prefix followed by characters that decode, as
\* unpadded URL-safe base64, to the URL.
C16_TokenRoundTrip ==
    Generated =>
        /\ Head(output.cred.status.token) = TokenV1Prefix
        /\ DecodeString(Tail(output.cred.status.token))
              = [err |-> FALSE, bytes |-> input.url.text]

\* C16's case: a URL that does not fill its last group of three bytes and whose
\* encoding uses the last characters of the alphabet.
C16_Witness ==
    /\ Generated
    /\ input.url.text = <<255, 47>>
    /\ Len(output.cred.status.token) = 4

----------------------------------------------------------------------------
(* GetCredentials (pkg/aws). *)

\* What the security-token service answers: an error, or credentials whose
\* fields the provider copies as they are.
ServiceError == [kind |-> "error"]
ServiceCredentials ==
    [kind : {"credentials"}, AccessKeyID : {EmptyString, SomeString},
     SecretAccessKey : {EmptyString, SomeString}, SessionToken : {EmptyString, SomeString}]
ServiceResponses == {ServiceError} \cup ServiceCredentials

\* (*Authenticator).GetCredentials, given whether the configuration loads,
\* whether the token retriever delivers a token, and the service's answer.
GetCredentialsOf(loaded, tokenOk, response) ==
    IF ~loaded \/ ~tokenOk
    THEN [err |-> "failed to get AWS config", creds |-> Nil]
    ELSE IF response.kind = "error"
    THEN [err |-> "failed to retrieve credentials", creds |-> Nil]
    ELSE [err |-> NoError,
          creds |-> [AccessKeyId |-> response.AccessKeyID,
                     SecretAccessKey |-> response.SecretAccessKey,
                     SessionToken |-> response.SessionToken]]

GetCredentialsInputs ==
    [op : {"GetCredentials"}, loaded : BOOLEAN, tokenOk : BOOLEAN,
     response : ServiceResponses]

\* A call of GetCredentials.
CallGetCredentials ==
    /\ input # Nil
    /\ input.op = "GetCredentials"
    /\ output = Nil
    /\ output' = GetCredentialsOf(input.loaded, input.tokenOk, input.response)
    /\ UNCHANGED <<now, cacheVars, runVars, pkey, ppath, input, raceVars, signVars>>

\* C20: credentials returned without error have a non-empty access key
\* identifier, secret key and session token, and a token-retriever error, a
\* service error or an empty secret in the answer makes the call return an
\* error.
C20_CredentialsNonEmpty ==
    (input # Nil /\ input.op = "GetCredentials" /\ output # Nil) =>
        /\ output.err = NoError =>
              /\ output.creds.AccessKeyId # EmptyString
              /\ output.creds.SecretAccessKey # EmptyString
              /\ output.creds.SessionToken # EmptyString
        /\ ~input.tokenOk => output.err # NoError
        /\ input.response.kind = "error" => output.err # NoError
        /\ (input.response.kind = "credentials"
               /\ input.response.SecretAccessKey = EmptyString) => output.err # NoError


----------------------------------------------------------------------------
(* pkg/aws: GetPresignedCallerIdentityURL, step by step.  The file aws.go   *)
(* holds two versions of it and auth.go a third.  The signer of the SDK is  *)
(* modelled by what its signature covers: the headers the request carries   *)
(* when the signer is invoked.                                              *)

HeaderEKSClusterID == <<"x-k8s-aws-id">>
HeaderExpires == <<"X-Amz-Expires">>
HeaderHost == <<"Host">>

\* net/textproto.CanonicalMIMEHeaderKey on the header names used here.
CanonicalMIMEHeaderKey(key) ==
    IF key = HeaderEKSClusterID THEN <<"X-K8s-Aws-Id">> ELSE key

\* The signer signs header names in lower case.
SignedName(key) ==
    CASE key = <<"X-K8s-Aws-Id">> -> <<"x-k8s-aws-id">>
      [] key = <<"X-Amz-Expires">> -> <<"x-amz-expires">>
      [] key = <<"Host">> -> <<"host">>
      [] OTHER -> key

\* strconv of a natural number, as fmt's %.0f prints a whole number of seconds.
RECURSIVE FormatSeconds(_)
FormatSeconds(n) ==
    IF n < 10 THEN <<Digits[n + 1]>>
    ELSE FormatSeconds(n \div 10) \o <<Digits[(n % 10) + 1]>>

\* The versions of GetPresignedCallerIdentityURL.
SignFiles == {"aws.go:138", "aws.go:302", "auth.go:107"}

\* The cluster names and the header expirations (whole seconds) of the calls.
ClusterNames == {<<"k">>, <<"k", "&">>, <<"K", " ">>, <<"_">>}
HeaderExpirations == {0, 60, 900}

\* http.Header.Add
HeaderAdd(header, key, value) ==
    header \cup {[key |-> CanonicalMIMEHeaderKey(key), value |-> value]}

\* The headers handed to NewCustomPresigner, or none where the presign
\* options are left alone.
CustomHeaders(file, clusterName, expiration) ==
    CASE file = "aws.go:138" ->
            {[key |-> HeaderEKSClusterID, value |-> clusterName],
             [key |-> HeaderExpires, value |-> FormatSeconds(expiration)]}
      [] file = "auth.go:107" ->
            {[key |-> HeaderEKSClusterID, value |-> clusterName],
             [key |-> HeaderExpires, value |-> <<"6", "0">>]}
      [] file = "aws.go:302" -> {}

\* Whether this version replaces opt.Presigner by a CustomPresigner.
UsesCustomPresigner(file) == file \in {"aws.go:138", "auth.go:107"}

\* The error each version wraps a failure to load the configuration in.
ConfigError(file) ==
    IF file = "auth.go:107" THEN "failed to load AWS config with credentials"
    ELSE "failed to get AWS config"

PresignError(file) ==
    IF file = "auth.go:107" THEN "failed to presign GetCallerIdentity request"
    ELSE "failed to presign get caller identity"

\* What the signer returns: a URL whose signature covers the given headers.
SignedURL(header) ==
    [covered |-> {[key |-> SignedName(h.key), value |-> h.value] : h \in header},
     appended |-> <<>>]

\* fmt.Sprintf("%s&cluster-name=%s", output.URL, clusterName)
AppendClusterName(url, clusterName) ==
    [url EXCEPT !.appended = @ \o <<"&", "cluster-name", "=">> \o clusterName]

\* The URL each version returns for the URL the signer produced.
ReturnedURL(file, url, clusterName) ==
    IF file = "aws.go:302" THEN AppendClusterName(url, clusterName) ELSE url

SignStep(s) == sign' = s /\ UNCHANGED <<now, cacheVars, runVars, pkey, ppath, callVars, raceVars>>

\* The configuration is loaded (and, in aws.go, the identity token fetched).
SignLoadConfig ==
    /\ sign # Nil /\ sign.pc = "config"
    /\ \E ok \in BOOLEAN :
          SignStep(IF ok THEN [sign EXCEPT !.pc = "presign"]
                   ELSE [sign EXCEPT !.pc = "done", !.err = ConfigError(sign.file)])

\* PresignGetCallerIdentity builds the request and applies the presign options.
PresignGetCallerIdentity ==
    /\ sign # Nil /\ sign.pc = "presign"
    /\ SignStep([sign EXCEPT
          !.header = {[key |-> HeaderHost, value |-> <<"sts">>]},
          !.pending = CustomHeaders(sign.file, sign.clusterName, sign.expiration),
          !.pc = IF UsesCustomPresigner(sign.file) THEN "CustomPresigner" ELSE "signer"])

\* CustomPresigner.PresignHTTP: one turn of the loop over p.headers.
PresignHTTPAdd ==
    /\ sign # Nil /\ sign.pc = "CustomPresigner"
    /\ \E h \in sign.pending :
          SignStep([sign EXCEPT !.header = HeaderAdd(@, h.key, h.value),
                                !.pending = @ \ {h}, !.hooked = TRUE])

\* CustomPresigner.PresignHTTP: the loop is over, the wrapped signer is called.
PresignHTTPDelegate ==
    /\ sign # Nil /\ sign.pc = "CustomPresigner" /\ sign.pending = {}
    /\ SignStep([sign EXCEPT !.pc = "signer"])

\* The signer of the SDK signs the request as it is, or fails.
SignerPresignHTTP ==
    /\ sign # Nil /\ sign.pc = "signer"
    /\ \E ok \in BOOLEAN :
          SignStep(IF ok THEN [sign EXCEPT !.pc = "signed", !.url = SignedURL(sign.header)]
                   ELSE [sign EXCEPT !.pc = "done", !.err = PresignError(sign.file)])

\* GetPresignedCallerIdentityURL returns.
SignReturn ==
    /\ sign # Nil /\ sign.pc = "signed"
    /\ SignStep([sign EXCEPT !.pc = "done",
                             !.ret = ReturnedURL(sign.file, sign.url, sign.clusterName)])

SignCalls ==
    {[file |-> f, clusterName |-> c, expiration |-> e, pc |-> "config", header |-> {},
      pending |-> {}, hooked |-> FALSE, url |-> Nil, ret |-> Nil, err |-> NoError] :
        f \in SignFiles, c \in ClusterNames, e \in HeaderExpirations}

InitSign ==
    /\ InitCacheState
    /\ creatable = DirSet
    /\ InitRunIdle
    /\ pkey = Nil
    /\ ppath = Nil
    /\ InitCallIdle
    /\ InitRaceIdle
    /\ sign \in {s \in SignCalls : s.file = "aws.go:138" \/ s.expiration = 0}

NextSign ==
    \/ SignLoadConfig
    \/ PresignGetCallerIdentity
    \/ PresignHTTPAdd
    \/ PresignHTTPDelegate
    \/ SignerPresignHTTP
    \/ SignReturn

SpecSign == InitSign /\ [][NextSign]_vars

\* C21: the URL GetPresignedCallerIdentityURL returns is the URL the signer
\* produced, with nothing added after the signature was computed, and the
\* request went through the header-injecting CustomPresigner.
C21_ReturnsSignerURL ==
    (sign # Nil /\ sign.pc = "done" /\ sign.err = NoError)
        => (sign.ret = sign.url /\ sign.hooked)

\* C22: whenever the signer has signed, its signature covers the cluster
\* header with the cluster name verbatim and the expiry header.
C22_SignerSeesBothHeaders ==
    (sign # Nil /\ sign.url # Nil)
        => /\ [key |-> SignedName(CanonicalMIMEHeaderKey(HeaderEKSClusterID)),
               value |-> sign.clusterName] \in sign.url.covered
           /\ \E h \in sign.url.covered : h.key = SignedName(HeaderExpires)


----------------------------------------------------------------------------
(* pkg/aws: the AssumeRoleWithWebIdentity request behind GetCredentials.    *)

\* stscreds.WebIdentityRoleProvider: a session name left empty in the options
\* is replaced by the clock's reading in nanoseconds, in decimal.
RoleSessionNameOf(optionName, unixNano) ==
    IF optionName = EmptyString THEN FormatSeconds(unixNano) ELSE optionName

\* The RoleSessionName each version puts in the provider's options: aws.go
\* passes no option, auth.go sets o.RoleSessionName = a.sessionName.
RoleSessionNameOption(file, auth) ==
    IF file = "auth.go" THEN auth.sessionID ELSE EmptyString

\* The request the provider sends for the authenticator, the token its
\* token source delivered and the clock's reading.
WebIdentityRequest(file, auth, token, unixNano) ==
    [RoleArn |-> auth.roleARN,
     RoleSessionName |-> RoleSessionNameOf(RoleSessionNameOption(file, auth), unixNano),
     WebIdentityToken |-> token]

IdentityTokens == {<<"t">>, <<"u">>}
UnixNanos == {7, 42}

\* The authenticators each constructor can have returned.
WebIdentityRequestInputs ==
    {i \in [op : {"WebIdentityRequest"}, file : Constructors,
            roleARN : {EmptyString, SomeString},
            sessionID : {EmptyString, SomeString, <<"s", "2">>},
            stsRegion : {SomeString}, tokenRetriever : {SomeRetriever},
            loaded : {TRUE}, token : IdentityTokens, unixNano : UnixNanos] :
        (IF i.file = "aws.go"
         THEN NewAuthenticatorValidating(i.roleARN, i.sessionID, i.stsRegion,
                                         i.tokenRetriever)
         ELSE NewAWSAuthenticator(i.roleARN, i.sessionID, i.stsRegion,
                                  i.tokenRetriever, i.loaded)).err = NoError}

\* GetCredentials up to the request it has the provider send.
CallWebIdentityRequest ==
    /\ input # Nil
    /\ input.op = "WebIdentityRequest"
    /\ output = Nil
    /\ output' = WebIdentityRequest(input.file,
                     Authenticator(input.roleARN, input.sessionID, input.stsRegion,
                                   input.tokenRetriever),
                     input.token, input.unixNano)
    /\ UNCHANGED <<now, cacheVars, runVars, pkey, ppath, input, raceVars, signVars>>

\* C23: the federation request carries the authenticator's role, the token
\* of the token source, and the session identifier given at construction as
\* its session name.
C23_RequestCarriesIdentity ==
    (input # Nil /\ input.op = "WebIdentityRequest" /\ output # Nil)
        => /\ output.RoleArn = input.roleARN
           /\ output.WebIdentityToken = input.token
           /\ output.RoleSessionName = input.sessionID


----------------------------------------------------------------------------
(* pkg/gcp: two calls on one HybridMetadata provider.  The provider holds   *)
(* gcpMetadata and isOnGCP and nothing else, so each call draws its own     *)
(* random bytes.                                                            *)

\* The byte strings the random source delivers to the calls: they differ, if
\* at all, in the first byte.
RandDraws == {[i \in 1..SuffixLen |-> IF i = 1 THEN b ELSE 0] : b \in RandBytes}

\* What one call of the random source gives: whether it succeeded, and the bytes.
RandReads == [readOk : BOOLEAN, r : RandDraws]

TwiceInputs ==
    [op : {"Twice"}, isOnGCP : BOOLEAN, project : ProjectLookups, host : HostLookups,
     osHostname : OSHostnames, first : RandReads, second : RandReads]

\* ProjectID and CreateSessionIdentifier, each called twice on one provider
\* in one process: the metadata service and os.Hostname answer both times
\* alike, the random source is read anew by each call.
CallTwice ==
    /\ input # Nil
    /\ input.op = "Twice"
    /\ output = Nil
    /\ output' =
          [projectIDs |->
              <<ProjectID(input.isOnGCP, input.project, input.first.readOk, input.first.r),
                ProjectID(input.isOnGCP, input.project, input.second.readOk, input.second.r)>>,
           sessionIDs |->
              <<ProviderSessionIdentifier(TRUE, input.isOnGCP, input.project, input.host,
                                          input.osHostname, input.first.readOk, input.first.r),
                ProviderSessionIdentifier(TRUE, input.isOnGCP, input.project, input.host,
                                          input.osHostname, input.second.readOk,
                                          input.second.r)>>]
    /\ UNCHANGED <<now, cacheVars, runVars, pkey, ppath, input, raceVars, signVars>>

\* C27: off the platform two calls of ProjectID on one provider return the
\* same value, and so do two calls of CreateSessionIdentifier.
C27_FallbackConsistent ==
    (input # Nil /\ input.op = "Twice" /\ ~input.isOnGCP /\ output # Nil)
        => /\ output.projectIDs[1] = output.projectIDs[2]
           /\ output.sessionIDs[1] = output.sessionIDs[2]


----------------------------------------------------------------------------
(* Runs of the program far enough apart for a cached credential to age.     *)

\* The waits between two runs: as long as a signed URL is valid, and as long
\* as Get returns an entry stored with presignedURLExpiration.
Naps == {SignedURLValidity, presignedURLExpiration - minValidityPeriod}

\* The clock stops one run after the expiration of the first entry.
MaxClock == presignedURLExpiration + MaxElapsed

\* Time passes between two runs.
Sleep ==
    /\ pc \in {"idle", "exited"}
    /\ \E d \in Naps :
          /\ now + d <= MaxClock
          /\ now' = now + d
    /\ UNCHANGED <<cacheVars, runVars, pathVars>>

InitRuns ==
    /\ Init
    /\ creatable = DirSet

NextRuns ==
    \/ Next
    \/ Sleep

SpecRuns == InitRuns /\ [][NextRuns]_vars

\* This step is a run answering from the cache: it writes the cached
\* credential to stdout.
EmitsFromCache ==
    /\ "hit" \in did' \ did
    /\ err' = NoError
    /\ Len(stdout') = 1

\* The credential that step writes.
Emitted == stdout'[1]

\* The URL in the token of credential c: the token without its prefix, decoded.
TokenURL(c) == DecodeString(SubSeq(c.status.token, 2, Len(c.status.token))).bytes

\* C29: when a run answers from the cache, less than SignedURLValidity has
\* passed since the URL in the credential it writes was signed.
C29_CachedURLStillValid ==
    [][EmitsFromCache => now - SigningTime(TokenURL(Emitted)) < SignedURLValidity]_vars

\* C30: when a run answers from the cache, the expirationTimestamp of the
\* credential it writes lies at least minValidityPeriod less the formatter's
\* buffer in the future.
C30_CachedExpirationAhead ==
    [][EmitsFromCache =>
          Emitted.status.expirationTimestamp - now * SecondsPerMinute
              >= (minValidityPeriod - TokenExpirationBuffer) * SecondsPerMinute]_vars

----------------------------------------------------------------------------
(* Single calls of the functions above. *)

InitCall ==
    /\ InitCacheState
    /\ creatable = DirSet
    /\ InitRunIdle
    /\ pkey = Nil
    /\ ppath = Nil
    /\ input \in NewAuthenticatorInputs \cup GenerateExecCredentialInputs
                 \cup SessionIdentifierInputs \cup RandomStringInputs
                 \cup ProjectIDInputs \cup HostnameInputs \cup GetCredentialsInputs
                         \cup WebIdentityRequestInputs \cup TwiceInputs
    /\ output = Nil
    /\ InitRaceIdle
    /\ InitSignIdle

NextCall ==
    \/ CallNewAuthenticator
    \/ CallGenerateExecCredential
    \/ CallCreateSessionIdentifier
    \/ CallGenerateRandomString
    \/ CallProjectID
    \/ CallHostname
    \/ CallGetCredentials
    \/ CallWebIdentityRequest
    \/ CallTwice

SpecCall == InitCall /\ [][NextCall]_vars

====
